---- MODULE Spec2Model ----
(***************************************************************************)
(* Model of the OmArtificial-Gains scorecard: the ownership trend store    *)
(* (src/data/ownership.py), the DCF valuator (src/data/quotes.py) and the  *)
(* buy-signal gate of streamlit_app.py.                                    *)
(***************************************************************************)
EXTENDS Integers, Sequences, FiniteSets, TLC

VARIABLES disk, call, ret, pc, loc, dcf, buy, score, sent

vars == <<disk, call, ret, pc, loc, dcf, buy, score, sent>>

(***************************************************************************)
(* Bounds of the model.                                                    *)
(***************************************************************************)
\* timestamps the clock (datetime.utcnow) can return: 1..MaxDate
MaxDate == 3

(***************************************************************************)
(* Values.  A cell is a tagged record so that Python's None, pandas' NaN   *)
(* and NaT, numbers, Timestamps and CSV text stay distinguishable.         *)
(***************************************************************************)
None == [k |-> "None", v |-> 0]
NaN == [k |-> "NaN", v |-> 0]
NaT == [k |-> "NaT", v |-> 0]
Blank == [k |-> "blank", v |-> 0]
Num(x) == [k |-> "num", v |-> x]
Timestamp(t) == [k |-> "ts", v |-> t]
Text(t) == [k |-> "str", v |-> t]

\* pd.notna / "is not None" on a scalar cell
NotNa(c) == c.k \notin {"None", "NaN", "NaT", "blank"}

Columns == <<"date", "inst_pct", "top5_pct", "top10_pct">>

Dates == 1..MaxDate

\* the ticker strings the sidebar can hand over, as character sequences
Tickers == {<<"q", "/">>, <<"Q", "_">>}

\* str.upper, per character
Upper(c) == IF c = "q" THEN "Q" ELSE c

\* _cache_path: upper-case, then "/" and "\" become "_"
CachePath(ticker) ==
    [i \in 1..Len(ticker) |->
        LET c == Upper(ticker[i])
        IN  IF c \in {"/", "\\"} THEN "_" ELSE c]

Paths == {CachePath(t) : t \in Tickers}

\* a file of the cache directory: absent, present and empty (opened for
\* writing, nothing flushed yet), or holding the rows of a CSV
AbsentFile == [st |-> "absent", rows |-> <<>>]
EmptyFile == [st |-> "empty", rows |-> <<>>]
CsvFile(rows) == [st |-> "csv", rows |-> rows]

(***************************************************************************)
(* pandas helpers                                                          *)
(***************************************************************************)
\* pd.to_datetime(errors="coerce") followed by tz_localize(None), per cell:
\* a Timestamp stays, CSV text is parsed back, anything else becomes NaT
ToDatetime(c) ==
    IF c.k = "ts" THEN c
    ELSE IF c.k = "str" THEN Timestamp(c.v)
    ELSE NaT

\* _normalize_date_column on the rows of a frame
NormalizeDateColumn(rows) ==
    [i \in 1..Len(rows) |-> [rows[i] EXCEPT !.date = ToDatetime(rows[i].date)]]

\* DataFrame.to_csv, per cell: missing values are written as empty text,
\* a Timestamp as its text
ToCsvCell(c) ==
    IF c.k = "ts" THEN Text(c.v)
    ELSE IF c.k \in {"None", "NaN", "NaT"} THEN Blank
    ELSE c

ToCsvRow(r) == [f \in DOMAIN r |-> ToCsvCell(r[f])]

\* pd.read_csv, per cell: empty text is read as NaN
ReadCsvCell(c) == IF c.k = "blank" THEN NaN ELSE c

ReadCsvRow(r) == [f \in DOMAIN r |-> ReadCsvCell(r[f])]

\* order of the date column under sort_values: NaT sorts last
DateKey(c) == IF c.k = "ts" THEN c.v ELSE MaxDate + 2

\* df.drop_duplicates(subset=["date"], keep="last")
DropDuplicatesKeepLast(rows) ==
    SelectSeq([i \in 1..Len(rows) |-> <<i, rows[i]>>],
              LAMBDA p : \A j \in (p[1] + 1)..Len(rows) : rows[j].date # p[2].date)

Untag(pairs) == [i \in 1..Len(pairs) |-> pairs[i][2]]

RECURSIVE SortValues(_)
\* df.sort_values("date"): ascending, by selection of the least date
SortValues(rows) ==
    IF Len(rows) = 0 THEN <<>>
    ELSE LET m == CHOOSE i \in 1..Len(rows) :
                      \A j \in 1..Len(rows) :
                          \/ DateKey(rows[i].date) < DateKey(rows[j].date)
                          \/ (DateKey(rows[i].date) = DateKey(rows[j].date) /\ i <= j)
             rest == [j \in 1..(Len(rows) - 1) |-> IF j < m THEN rows[j] ELSE rows[j + 1]]
         IN  <<rows[m]>> \o SortValues(rest)

(***************************************************************************)
(* The trend store: _load_cache and _save_cache                            *)
(***************************************************************************)
EmptyFrame == [raised |-> FALSE, cols |-> Columns, rows |-> <<>>]

\* _load_cache without its try/except: an unreadable file raises
LoadCacheNoExcept(file) ==
    IF file.st = "csv"
    THEN [raised |-> FALSE, cols |-> Columns,
          rows |-> NormalizeDateColumn([i \in 1..Len(file.rows) |-> ReadCsvRow(file.rows[i])])]
    ELSE IF file.st = "empty"
    THEN [raised |-> TRUE, cols |-> <<>>, rows |-> <<>>]
    ELSE EmptyFrame

\* _load_cache: the frame read from the file; an absent file, and a file
\* pd.read_csv raises on (EmptyDataError), give the empty canonical frame
LoadCache(file) ==
    IF file.st = "csv"
    THEN [raised |-> FALSE, cols |-> Columns,
          rows |-> NormalizeDateColumn([i \in 1..Len(file.rows) |-> ReadCsvRow(file.rows[i])])]
    ELSE EmptyFrame

\* _save_cache, lines 52-54, with the duplicates dropped keeping the first
MergeRowKeepFirst(df, row) ==
    LET cat == NormalizeDateColumn(<<row>> \o df.rows)
    IN  SortValues(Untag(DropDuplicatesKeepLast(cat)))

\* _save_cache, lines 52-54, without the sort
MergeRowNoSort(df, row) ==
    LET cat == NormalizeDateColumn(df.rows \o <<row>>)
    IN  Untag(DropDuplicatesKeepLast(cat))

\* _save_cache, lines 52-54: concat the row, normalise, dedup keeping the
\* last, sort by date
MergeRow(df, row) ==
    LET cat == NormalizeDateColumn(df.rows \o <<row>>)
    IN  SortValues(Untag(DropDuplicatesKeepLast(cat)))

\* _save_cache, line 55: the file df.to_csv leaves
WriteCsv(rows) == CsvFile([i \in 1..Len(rows) |-> ToCsvRow(rows[i])])

\* _save_cache as a whole, on one file
SaveCache(file, row) == WriteCsv(MergeRow(LoadCache(file), row))

(***************************************************************************)
(* fetch_institutional_snapshot                                            *)
(***************************************************************************)
\* what yfinance can return for sharesOutstanding and institutional_holders;
\* a holders table is given by its Shares column, one entry per row
ShareOuts == {None, Num(0), Num(4)}

NoneDf == [kind |-> "None", hasShares |-> FALSE, shares |-> <<>>]
NoSharesDf == [kind |-> "df", hasShares |-> FALSE, shares |-> <<1>>]
Df(shares) == [kind |-> "df", hasShares |-> TRUE, shares |-> shares]

InstDfs == {NoneDf, NoSharesDf, Df(<<>>), Df(<<1>>), Df(<<1, 1>>)}

RECURSIVE SumSeq(_)
\* Series.sum()
SumSeq(s) == IF Len(s) = 0 THEN 0 ELSE s[1] + SumSeq(Tail(s))

RECURSIVE SortDesc(_)
\* holders.sort_values("Shares", ascending=False)
SortDesc(s) ==
    IF Len(s) = 0 THEN <<>>
    ELSE LET m == CHOOSE i \in 1..Len(s) :
                      \A j \in 1..Len(s) : s[i] > s[j] \/ (s[i] = s[j] /\ i <= j)
             rest == [j \in 1..(Len(s) - 1) |-> IF j < m THEN s[j] ELSE s[j + 1]]
         IN  <<s[m]>> \o SortDesc(rest)

\* DataFrame.head(n)
Head_(s, n) == SubSeq(s, 1, IF Len(s) < n THEN Len(s) ELSE n)

\* Python truthiness of an optional number
Truthy(c) == c.k = "num" /\ c.v # 0

\* lines 98-124: the current snapshot, or the reason there is none
Snapshot(shares_out, inst_df) ==
    IF inst_df.kind = "None" \/ Len(inst_df.shares) = 0 \/ shares_out.k = "None"
    THEN [ok |-> FALSE, message |-> "Institutional data not available from yfinance.",
          inst_pct |-> None, top5_pct |-> None, top10_pct |-> None]
    ELSE IF ~inst_df.hasShares
    THEN [ok |-> FALSE, message |-> "Institutional data missing 'Shares' column.",
          inst_pct |-> None, top5_pct |-> None, top10_pct |-> None]
    ELSE LET total == SumSeq(inst_df.shares)
             sorted == SortDesc(inst_df.shares)
             top5 == SumSeq(Head_(sorted, 5))
             top10 == SumSeq(Head_(sorted, 10))
         IN  [ok |-> TRUE, message |-> "",
              inst_pct |-> IF Truthy(shares_out)
                           THEN Num((total * 100) \div shares_out.v) ELSE None,
              top5_pct |-> IF total > 0 THEN Num((top5 * 100) \div total) ELSE None,
              top10_pct |-> IF total > 0 THEN Num((top10 * 100) \div total) ELSE None]

\* line 128: trend_df.iloc[-1] if not trend_df.empty else None, as a
\* sequence of no or one row
PrevRow(trend_df) ==
    IF Len(trend_df.rows) = 0 THEN <<>> ELSE <<trend_df.rows[Len(trend_df.rows)]>>

\* lines 129-134 with the previous value taken from the first row
QoqChangeFirstRow(trend_df, inst_pct) ==
    IF Len(trend_df.rows) > 0 /\ NotNa(trend_df.rows[1].inst_pct) /\ inst_pct.k # "None"
    THEN Num(inst_pct.v - trend_df.rows[1].inst_pct.v)
    ELSE None

\* lines 129-134: the change against the previous row, or None
QoqChange(trend_df, inst_pct) ==
    LET prev_row == PrevRow(trend_df)
    IN  IF Len(prev_row) = 1 /\ NotNa(prev_row[1].inst_pct) /\ inst_pct.k # "None"
        THEN Num(inst_pct.v - prev_row[1].inst_pct.v)
        ELSE None

\* lines 137-142: the row to save
NewRow(now, snap) ==
    [date |-> Timestamp(now), inst_pct |-> snap.inst_pct,
     top5_pct |-> snap.top5_pct, top10_pct |-> snap.top10_pct]

\* the result dict of fetch_institutional_snapshot
Result(snap, trend_rows, qoq, prev_row) ==
    [ok |-> snap.ok, message |-> snap.message, inst_pct |-> snap.inst_pct,
     top5_pct |-> snap.top5_pct, top10_pct |-> snap.top10_pct,
     trend_df |-> trend_rows, qoq_change |-> qoq,
     top10_changes |-> Len(prev_row) = 1]

NoCall == [op |-> "none", ticker |-> <<>>, row |-> <<>>, prev |-> <<>>]
NoResult ==
    [ok |-> FALSE, message |-> "", inst_pct |-> None, top5_pct |-> None,
     top10_pct |-> None, trend_df |-> <<>>, qoq_change |-> None,
     top10_changes |-> FALSE]

(***************************************************************************)
(* Exact fractions <<numerator, denominator>>, denominator > 0, in lowest  *)
(* terms, for the float arithmetic of the valuation code.                  *)
(***************************************************************************)
\* abs(x)
Abs(x) == IF x < 0 THEN -x ELSE x

RECURSIVE Gcd(_, _)
\* greatest common divisor of a >= 0 and b >= 0
Gcd(a, b) == IF b = 0 THEN a ELSE Gcd(b, a % b)

\* the fraction n / d, d # 0
Rat(n, d) ==
    LET g == Gcd(Abs(n), Abs(d))
    IN  IF d < 0 THEN <<(-n) \div g, (-d) \div g>> ELSE <<n \div g, d \div g>>

\* a * b
RMul(a, b) ==
    LET g1 == Gcd(Abs(a[1]), b[2])
        g2 == Gcd(Abs(b[1]), a[2])
    IN  IF a[1] = 0 \/ b[1] = 0 THEN <<0, 1>>
        ELSE <<(a[1] \div g1) * (b[1] \div g2), (a[2] \div g2) * (b[2] \div g1)>>

\* a / b for b # 0
RDiv(a, b) == RMul(a, IF b[1] < 0 THEN <<-b[2], -b[1]>> ELSE <<b[2], b[1]>>)

\* a + b
RAdd(a, b) ==
    LET g == Gcd(a[2], b[2])
    IN  Rat(a[1] * (b[2] \div g) + b[1] * (a[2] \div g), (a[2] \div g) * b[2])

RSub(a, b) == RAdd(a, <<-b[1], b[2]>>)

RLess(a, b) == a[1] * b[2] < b[1] * a[2]

RLeq(a, b) == a[1] * b[2] <= b[1] * a[2]

ROne == <<1, 1>>

RZero == <<0, 1>>

RECURSIVE RPow(_, _)
\* a ** k for an integer k >= 0
RPow(a, k) == IF k = 0 THEN ROne ELSE RMul(a, RPow(a, k - 1))

RECURSIVE RSum(_)
\* sum(list)
RSum(s) == IF Len(s) = 0 THEN RZero ELSE RAdd(s[1], RSum(Tail(s)))

(***************************************************************************)
(* simple_dcf_intrinsic_value                                              *)
(***************************************************************************)
\* the longest projection, in years
MaxYears == 3

\* free cash flow and share counts, as the caller or yfinance supply them
FcfVals == {None, Num(0), Num(100), Num(-100)}

SharesVals == {None, Num(0), Num(10), Num(-10)}

\* growth, discount and terminal growth rates
GrowthRates == {<<0, 1>>, <<1, 10>>}

DiscountRates == {<<1, 20>>, <<1, 10>>}

TerminalRates == {<<0, 1>>, <<1, 20>>, <<1, 10>>}

NoIv == [k |-> "None", v |-> RZero]

Iv(x) == [k |-> "float", v |-> x]

InsufficientResult ==
    [ok |-> FALSE, message |-> "Insufficient data for DCF (FCF, shares, or rates).",
     iv_per_share |-> NoIv, raised |-> "no"]

NoDcfResult == [ok |-> FALSE, message |-> "", iv_per_share |-> NoIv, raised |-> "no"]

IdleDcf ==
    [pc |-> "idle", fcf0 |-> None, shares_outstanding |-> None, years |-> 0,
     growth_rate |-> RZero, discount_rate |-> RZero, terminal_growth |-> RZero,
     result |-> NoDcfResult]

\* line 259 with the rates compared by < instead of <=
InsufficientDataStrict(d) ==
    \/ ~Truthy(d.fcf0)
    \/ ~Truthy(d.shares_outstanding)
    \/ RLess(d.discount_rate, d.terminal_growth)

\* line 259: not fcf0 or not shares_outstanding or discount_rate <= terminal_growth
InsufficientData(d) ==
    \/ ~Truthy(d.fcf0)
    \/ ~Truthy(d.shares_outstanding)
    \/ RLeq(d.discount_rate, d.terminal_growth)

RECURSIVE FcfList(_, _, _)
\* lines 267-271: the cash flow of each of the years, compounding
FcfList(fcf, growth_rate, years) ==
    IF years <= 0 THEN <<>>
    ELSE LET next == RMul(fcf, RAdd(ROne, growth_rate))
         IN  <<next>> \o FcfList(next, growth_rate, years - 1)

\* line 274 with the exponent i instead of i+1
DiscountedOffByOne(fcf_list, discount_rate) ==
    [i \in 1..Len(fcf_list) |->
        RDiv(fcf_list[i], RPow(RAdd(ROne, discount_rate), i - 1))]

\* line 274: fcf_list[i] / (1 + discount_rate) ** (i+1), i from 0; the
\* sequence is indexed from 1 here
Discounted(fcf_list, discount_rate) ==
    [i \in 1..Len(fcf_list) |->
        RDiv(fcf_list[i], RPow(RAdd(ROne, discount_rate), i))]

\* lines 266-288: the projection; fcf_list[-1] of an empty list raises
\* IndexError, a division by zero ZeroDivisionError
Project(d) ==
    LET fcf_list == FcfList(<<d.fcf0.v, 1>>, d.growth_rate, d.years)
        disc == Discounted(fcf_list, d.discount_rate)
        pv_sum == RSum(disc)
        spread == RSub(d.discount_rate, d.terminal_growth)
        factor == RPow(RAdd(ROne, d.discount_rate), IF d.years < 0 THEN 0 ELSE d.years)
    IN  IF RAdd(ROne, d.discount_rate) = RZero /\ d.years >= 1
        THEN [NoDcfResult EXCEPT !.raised = "ZeroDivisionError"]
        ELSE IF Len(fcf_list) = 0
        THEN [NoDcfResult EXCEPT !.raised = "IndexError"]
        ELSE IF spread = RZero
        THEN [NoDcfResult EXCEPT !.raised = "ZeroDivisionError"]
        ELSE LET tv == RDiv(RMul(fcf_list[Len(fcf_list)], RAdd(ROne, d.terminal_growth)),
                            spread)
                 pv_tv == RDiv(tv, factor)
                 enterprise == RAdd(pv_sum, pv_tv)
                 iv_per_share == RDiv(enterprise, <<d.shares_outstanding.v, 1>>)
             IN  [ok |-> TRUE, message |-> "DCF calculated",
                  iv_per_share |-> Iv(iv_per_share), raised |-> "no"]

(***************************************************************************)
(* The scorecard's margin of safety and buy signal (streamlit_app.py)      *)
(***************************************************************************)
\* what the valuation, the quote summary, the sentiment scorer and the
\* sidebar sliders hand over
IvVals == {NoIv, Iv(<<100, 1>>), Iv(<<200, 1>>), Iv(<<-100, 1>>)}

PriceVals == {None, Num(0), Num(50), Num(100)}

SmaVals == {None, Num(50), Num(100)}

RsiVals == {None, Num(0), Num(50), Num(70)}

SentVals == {-1, 0, 1}

MosThresholds == {<<1, 4>>, <<1, 2>>}

RsiBuyMaxes == {40, 65}

\* Python truthiness of an optional float
TruthyIv(c) == c.k = "float" /\ c.v # RZero

\* lines 74-76: the margin of safety, or None
Mos(iv_ps, price) ==
    IF TruthyIv(iv_ps) /\ Truthy(price) /\ RLess(RZero, iv_ps.v)
    THEN Iv(RDiv(RSub(iv_ps.v, <<price.v, 1>>), iv_ps.v))
    ELSE NoIv

\* line 118
MosCondition(b) ==
    /\ TruthyIv(b.iv_ps)
    /\ Truthy(b.price)
    /\ Mos(b.iv_ps, b.price).k # "None"
    /\ RLeq(b.mos_threshold, Mos(b.iv_ps, b.price).v)

\* line 121
TrendCondition(b) ==
    Truthy(b.price) /\ Truthy(b.sma200) /\ b.price.v >= b.sma200.v

\* line 125
RsiCondition(b) == Truthy(b.rsi14) /\ b.rsi14.v <= b.rsi_buy_max

\* line 129
SentimentCondition(b) == b.sent_norm >= 0

\* lines 116-132 with the margin-of-safety block run after the other three
BuySignalMosLast(b) ==
    LET s0 == FALSE
        s1 == IF TrendCondition(b) THEN s0 ELSE FALSE
        s2 == IF RsiCondition(b) THEN s1 ELSE FALSE
        s3 == IF SentimentCondition(b) THEN s2 ELSE FALSE
    IN  IF MosCondition(b) THEN TRUE ELSE s3

\* lines 116-132: buy_signal after the four blocks, in their order
BuySignal(b) ==
    LET s0 == FALSE
        s1 == IF MosCondition(b) THEN TRUE ELSE s0
        s2 == IF TrendCondition(b) THEN s1 ELSE FALSE
        s3 == IF RsiCondition(b) THEN s2 ELSE FALSE
    IN  IF SentimentCondition(b) THEN s3 ELSE FALSE

\* lines 117-130: buy_reasons
BuyReasons(b) ==
    (IF MosCondition(b) THEN <<"MOS">> ELSE <<>>)
    \o (IF TrendCondition(b) THEN <<"Price >= SMA200">> ELSE <<>>)
    \o (IF RsiCondition(b) THEN <<"RSI">> ELSE <<>>)
    \o (IF SentimentCondition(b) THEN <<"Sentiment >= Neutral">> ELSE <<>>)

IdleBuy ==
    [pc |-> "idle", iv_ps |-> NoIv, price |-> None, sma200 |-> None, rsi14 |-> None,
     sent_norm |-> 0, mos_threshold |-> <<1, 4>>, rsi_buy_max |-> 65,
     mos |-> NoIv, buy_signal |-> FALSE, buy_reasons |-> <<>>]

(***************************************************************************)
(* src/score/scoring.py.  An argument is None, a float or the float nan;   *)
(* a float carries its value as an exact fraction.                         *)
(***************************************************************************)
\* float("nan"), what the rolling mean and the RSI give on undefined closes
FloatNaN == [k |-> "nan", v |-> RZero]

\* a >= b on floats: false as soon as one side is nan
Ge(a, b) == a.k = "float" /\ b.k = "float" /\ RLeq(b.v, a.v)

\* a > b on floats: false as soon as one side is nan
Gt(a, b) == a.k = "float" /\ b.k = "float" /\ RLess(b.v, a.v)

\* clamp(v, lo, hi): max(min(v, hi), lo)
clamp(v, lo, hi) ==
    LET m == IF RLess(hi, v) THEN hi ELSE v
    IN  IF RLess(m, lo) THEN lo ELSE m

\* technical_score with price > sma200 in the place of price >= sma200
technical_score_strict(price, sma200, rsi14) ==
    IF price.k = "None" \/ sma200.k = "None" \/ rsi14.k = "None"
    THEN RZero
    ELSE LET sc0 == RZero
             sc1 == IF Gt(price, sma200)
                    THEN RAdd(sc0, Rat(4, 10))
                    ELSE RSub(sc0, Rat(2, 10))
             sc2 == IF Ge(rsi14, Iv(Rat(40, 1))) /\ Ge(Iv(Rat(60, 1)), rsi14)
                    THEN RAdd(sc1, Rat(3, 10))
                    ELSE IF Gt(Iv(Rat(30, 1)), rsi14)
                         THEN RAdd(sc1, Rat(15, 100))
                         ELSE IF Gt(rsi14, Iv(Rat(70, 1)))
                              THEN RSub(sc1, Rat(2, 10))
                              ELSE sc1
         IN  clamp(sc2, Rat(-1, 1), ROne)

\* technical_score(price, sma200, rsi14)
technical_score(price, sma200, rsi14) ==
    IF price.k = "None" \/ sma200.k = "None" \/ rsi14.k = "None"
    THEN RZero
    ELSE LET sc0 == RZero
             sc1 == IF Ge(price, sma200)
                    THEN RAdd(sc0, Rat(4, 10))
                    ELSE RSub(sc0, Rat(2, 10))
             sc2 == IF Ge(rsi14, Iv(Rat(40, 1))) /\ Ge(Iv(Rat(60, 1)), rsi14)
                    THEN RAdd(sc1, Rat(3, 10))
                    ELSE IF Gt(Iv(Rat(30, 1)), rsi14)
                         THEN RAdd(sc1, Rat(15, 100))
                         ELSE IF Gt(rsi14, Iv(Rat(70, 1)))
                              THEN RSub(sc1, Rat(2, 10))
                              ELSE sc1
         IN  clamp(sc2, Rat(-1, 1), ROne)

\* ownership_score returning 0.0 as soon as one of its arguments is None
ownership_score_all_or_nothing(inst_pct_change, top_conc) ==
    IF inst_pct_change.k = "None" \/ top_conc.k = "None"
    THEN RZero
    ELSE LET sc1 == IF Gt(inst_pct_change, Iv(Rat(1, 2)))
                    THEN Rat(1, 2)
                    ELSE IF Gt(inst_pct_change, Iv(RZero))
                         THEN Rat(25, 100)
                         ELSE IF Gt(Iv(Rat(-1, 2)), inst_pct_change)
                              THEN Rat(-1, 2)
                              ELSE Rat(-15, 100)
             sc2 == IF Ge(top_conc, Iv(Rat(30, 1))) /\ Ge(Iv(Rat(60, 1)), top_conc)
                    THEN RAdd(sc1, Rat(15, 100))
                    ELSE IF Gt(top_conc, Iv(Rat(80, 1)))
                         THEN RSub(sc1, Rat(15, 100))
                         ELSE sc1
         IN  clamp(sc2, Rat(-1, 1), ROne)

\* ownership_score(inst_pct_change, top_conc)
ownership_score(inst_pct_change, top_conc) ==
    LET sc0 == RZero
        sc1 == IF inst_pct_change.k # "None"
               THEN IF Gt(inst_pct_change, Iv(Rat(1, 2)))
                    THEN RAdd(sc0, Rat(1, 2))
                    ELSE IF Gt(inst_pct_change, Iv(RZero))
                         THEN RAdd(sc0, Rat(25, 100))
                         ELSE IF Gt(Iv(Rat(-1, 2)), inst_pct_change)
                              THEN RSub(sc0, Rat(1, 2))
                              ELSE RSub(sc0, Rat(15, 100))
               ELSE sc0
        sc2 == IF top_conc.k # "None"
               THEN IF Ge(top_conc, Iv(Rat(30, 1))) /\ Ge(Iv(Rat(60, 1)), top_conc)
                    THEN RAdd(sc1, Rat(15, 100))
                    ELSE IF Gt(top_conc, Iv(Rat(80, 1)))
                         THEN RSub(sc1, Rat(15, 100))
                         ELSE sc1
               ELSE sc1
    IN  clamp(sc2, Rat(-1, 1), ROne)

\* line 45: the weights of margin of safety, sentiment, technicals and
\* ownership
w_m == Rat(40, 100)

w_s == Rat(25, 100)

w_t == Rat(20, 100)

w_o == Rat(15, 100)

\* lines 46-48 without the closing max(min(.., 100.0), 0.0)
overall_score_unclamped(mos_norm, sentiment_norm, technical_norm, ownership_norm) ==
    LET composite == RAdd(RAdd(RAdd(RMul(w_m, mos_norm), RMul(w_s, sentiment_norm)),
                               RMul(w_t, technical_norm)),
                          RMul(w_o, ownership_norm))
    IN  RMul(RAdd(composite, ROne), Rat(50, 1))

\* overall_score(mos_norm, sentiment_norm, technical_norm, ownership_norm)
overall_score(mos_norm, sentiment_norm, technical_norm, ownership_norm) ==
    LET composite == RAdd(RAdd(RAdd(RMul(w_m, mos_norm), RMul(w_s, sentiment_norm)),
                               RMul(w_t, technical_norm)),
                          RMul(w_o, ownership_norm))
        score_0_100 == RMul(RAdd(composite, ROne), Rat(50, 1))
        capped == IF RLess(Rat(100, 1), score_0_100) THEN Rat(100, 1) ELSE score_0_100
    IN  IF RLess(capped, RZero) THEN RZero ELSE capped

\* the arguments the scoring functions are applied to
TechPrices == {NoIv, Iv(Rat(90, 1)), Iv(Rat(100, 1)), Iv(Rat(110, 1))}

TechSmas == {NoIv, FloatNaN, Iv(Rat(100, 1))}

TechRsis ==
    {NoIv, FloatNaN} \cup {Iv(Rat(r, 1)) : r \in {29, 30, 35, 40, 50, 60, 61, 70, 71}}

OwnChanges == {NoIv} \cup {Iv(Rat(c, 100)) : c \in {-60, -50, -25, 0, 25, 50, 60}}

OwnConcs == {NoIv} \cup {Iv(Rat(c, 1)) : c \in {29, 30, 45, 60, 61, 80, 81, 85}}

NormVals == {Rat(n, 2) : n \in {-4, -2, -1, 0, 1, 2, 4}}

IdleScore == [pc |-> "idle", fn |-> "", args |-> <<>>, result |-> RZero]

(***************************************************************************)
(* src/nlp/sentiment.py.  A text is its words, separated by single blanks, *)
(* after lead blanks: [lead |-> 1, words |-> <<>>] is " ".                 *)
(***************************************************************************)
\* the longest text, in words
MaxWords == 5

\* the words of the texts
Vocabulary == {"Beat", "profit", "miss", "cut", "guidance"}

Texts ==
    {[lead |-> l, words |-> w] :
        l \in 0..1, w \in UNION {[1..n -> Vocabulary] : n \in 0..MaxWords}}

\* lines 4-15: each pattern with the phrases it matches, as word sequences in
\* lower case, and its weight in tenths
POSITIVE_WEIGHTS ==
    <<[pattern |-> "\\b(beat|beats|beating)\\b",
         alts |-> <<<<"beat">>, <<"beats">>, <<"beating">>>>,
         weight |-> 20],
      [pattern |-> "\\b(raise[d]?|increas(e|ed|es)|above guidance)\\b",
         alts |-> <<<<"raise">>, <<"raised">>, <<"increase">>,
                    <<"increased">>, <<"increases">>,
                    <<"above", "guidance">>>>,
         weight |-> 18],
      [pattern |-> "\\b(profit(able)?|positive EBITDA|free cash flow positive)\\b",
         alts |-> <<<<"profit">>, <<"profitable">>, <<"positive", "ebitda">>,
                    <<"free", "cash", "flow", "positive">>>>,
         weight |-> 22],
      [pattern |-> "\\b(margin(s)? (expand(ed|ing)?|improv(ed|ing)?))\\b",
         alts |-> <<<<"margin", "expand">>, <<"margin", "expanded">>,
                    <<"margin", "expanding">>, <<"margin", "improv">>,
                    <<"margin", "improved">>, <<"margin", "improving">>,
                    <<"margins", "expand">>, <<"margins", "expanded">>,
                    <<"margins", "expanding">>, <<"margins", "improv">>,
                    <<"margins", "improved">>, <<"margins", "improving">>>>,
         weight |-> 18],
      [pattern |-> "\\b(revenue growth|top[- ]?line growth|record revenue)\\b",
         alts |-> <<<<"revenue", "growth">>, <<"top-line", "growth">>,
                    <<"top", "line", "growth">>, <<"topline", "growth">>,
                    <<"record", "revenue">>>>,
         weight |-> 16],
      [pattern |-> "\\b(guidance (raised|maintained)|strong outlook|upgraded)\\b",
         alts |-> <<<<"guidance", "raised">>, <<"guidance", "maintained">>,
                    <<"strong", "outlook">>, <<"upgraded">>>>,
         weight |-> 18],
      [pattern |-> "\\b(loss(es)? narrowing|reduced losses)\\b",
         alts |-> <<<<"loss", "narrowing">>, <<"losses", "narrowing">>,
                    <<"reduced", "losses">>>>,
         weight |-> 14],
      [pattern |-> "\\b(cost discipline|efficien(cy|cies)|operating leverage)\\b",
         alts |-> <<<<"cost", "discipline">>, <<"efficiency">>,
                    <<"efficiencies">>, <<"operating", "leverage">>>>,
         weight |-> 14],
      [pattern |-> "\\b(buyback|share repurchase|dividend increase)\\b",
         alts |-> <<<<"buyback">>, <<"share", "repurchase">>,
                    <<"dividend", "increase">>>>,
         weight |-> 12]>>

\* lines 17-27
NEGATIVE_WEIGHTS ==
    <<[pattern |-> "\\b(miss|missed|below expectations)\\b",
         alts |-> <<<<"miss">>, <<"missed">>, <<"below", "expectations">>>>,
         weight |-> -22],
      [pattern |-> "\\b(lower(ed)? guidance|cut guidance|downside)\\b",
         alts |-> <<<<"lower", "guidance">>, <<"lowered", "guidance">>,
                    <<"cut", "guidance">>, <<"downside">>>>,
         weight |-> -20],
      [pattern |-> "\\b(loss widened|widening losses)\\b",
         alts |-> <<<<"loss", "widened">>, <<"widening", "losses">>>>,
         weight |-> -18],
      [pattern |-> "\\b(margin(s)? (compress(ed|ion)|decline|down))\\b",
         alts |-> <<<<"margin", "compressed">>, <<"margin", "compression">>,
                    <<"margin", "decline">>, <<"margin", "down">>,
                    <<"margins", "compressed">>,
                    <<"margins", "compression">>, <<"margins", "decline">>,
                    <<"margins", "down">>>>,
         weight |-> -16],
      [pattern |-> "\\b(revenue decline|top[- ]?line decline|falling sales)\\b",
         alts |-> <<<<"revenue", "decline">>, <<"top-line", "decline">>,
                    <<"top", "line", "decline">>, <<"topline", "decline">>,
                    <<"falling", "sales">>>>,
         weight |-> -16],
      [pattern |-> "\\b(headwind(s)?|macro headwinds|foreign exchange headwinds)\\b",
         alts |-> <<<<"headwind">>, <<"headwinds">>,
                    <<"macro", "headwinds">>,
                    <<"foreign", "exchange", "headwinds">>>>,
         weight |-> -12],
      [pattern |-> "\\b(one[- ]?time charge|impairment|restructuring)\\b",
         alts |-> <<<<"one-time", "charge">>, <<"one", "time", "charge">>,
                    <<"onetime", "charge">>, <<"impairment">>,
                    <<"restructuring">>>>,
         weight |-> -12],
      [pattern |-> "\\b(cash burn|liquidity risk|going concern)\\b",
         alts |-> <<<<"cash", "burn">>, <<"liquidity", "risk">>,
                    <<"going", "concern">>>>,
         weight |-> -20],
      [pattern |-> "\\b(dilution|secondary offering)\\b",
         alts |-> <<<<"dilution">>, <<"secondary", "offering">>>>,
         weight |-> -12]>>

\* str.lower, per word
LowerWord(w) == IF w = "Beat" THEN "beat" ELSE w

\* line 33: text.lower()
lower(text) ==
    [text EXCEPT !.words = [i \in 1..Len(text.words) |-> LowerWord(text.words[i])]]

\* text.strip()
strip(text) == [text EXCEPT !.lead = 0]

\* the truth value of a str: false for ""
TruthyText(text) == text.lead > 0 \/ Len(text.words) > 0

\* the phrase stands at word i of words
MatchAt(phrase, words, i) ==
    /\ i + Len(phrase) - 1 <= Len(words)
    /\ \A j \in 1..Len(phrase) : words[i + j - 1] = phrase[j]

RECURSIVE FindAllFrom(_, _, _)
\* the matches from word i on: leftmost first, none overlapping another
FindAllFrom(alts, words, i) ==
    IF i > Len(words) THEN 0
    ELSE LET found == {a \in 1..Len(alts) : MatchAt(alts[a], words, i)}
         IN  IF found = {} THEN FindAllFrom(alts, words, i + 1)
             ELSE LET a == CHOOSE x \in found : \A y \in found : x <= y
                  IN  1 + FindAllFrom(alts, words, i + Len(alts[a]))

\* line 39: len(re.findall(pattern, text_low, flags=re.IGNORECASE))
findall(alts, text_low) == FindAllFrom(alts, text_low.words, 1)

\* lines 40-44: the hit of one pattern that matched cnt times
Hit(entry, cnt, sign_label) ==
    [pattern |-> entry.pattern, count |-> cnt, weight |-> entry.weight,
     contrib |-> entry.weight * cnt, sign |-> sign_label]

\* lines 35-45: the summed contributions, in tenths, and the hits of the
\* patterns that matched, in the order of the table
apply_patterns(pattern_dict, sign_label, text_low) ==
    LET all == [k \in 1..Len(pattern_dict) |->
                   Hit(pattern_dict[k], findall(pattern_dict[k].alts, text_low),
                       sign_label)]
        loc_hits == SelectSeq(all, LAMBDA h : h.count > 0)
    IN  [score |-> SumSeq([k \in 1..Len(loc_hits) |-> loc_hits[k].contrib]),
         loc_hits |-> loc_hits]

RECURSIVE SortHits(_)
\* line 55: sorted(hits, key=lambda x: abs(x[3]), reverse=True), which
\* keeps hits of equal weight in their order
SortHits(hits) ==
    IF Len(hits) = 0 THEN <<>>
    ELSE LET m == CHOOSE i \in 1..Len(hits) :
                      \A j \in 1..Len(hits) :
                          \/ Abs(hits[i].contrib) > Abs(hits[j].contrib)
                          \/ Abs(hits[i].contrib) = Abs(hits[j].contrib) /\ i <= j
             rest == [j \in 1..(Len(hits) - 1) |-> IF j < m THEN hits[j] ELSE hits[j + 1]]
         IN  <<hits[m]>> \o SortHits(rest)

\* line 53 with norm >= 0.2 and norm <= -0.2
LabelInclusive(norm) ==
    IF RLeq(Rat(2, 10), norm) THEN "bullish"
    ELSE IF RLeq(norm, Rat(-2, 10)) THEN "bearish" ELSE "neutral"

\* line 53
Label(norm) ==
    IF RLess(Rat(2, 10), norm) THEN "bullish"
    ELSE IF RLess(norm, Rat(-2, 10)) THEN "bearish" ELSE "neutral"

\* line 31: the result for an empty text
NeutralResult == [score |-> RZero, label |-> "neutral", hits |-> <<>>]

\* lines 50-61: the result from what the two tables gave
Normalize(pos, neg) ==
    LET raw == pos.score + neg.score
        scaled == Rat(raw, 100)
        capped == IF RLess(ROne, scaled) THEN ROne ELSE scaled
        norm == IF RLess(capped, Rat(-1, 1)) THEN Rat(-1, 1) ELSE capped
        hits == pos.loc_hits \o neg.loc_hits
    IN  [score |-> norm, label |-> Label(norm),
         hits |-> Head_(SortHits(hits), 20)]

\* compute_weighted_sentiment(text)
compute_weighted_sentiment(text) ==
    IF ~TruthyText(text) \/ ~TruthyText(strip(text))
    THEN NeutralResult
    ELSE Normalize(apply_patterns(POSITIVE_WEIGHTS, "+", lower(text)),
                   apply_patterns(NEGATIVE_WEIGHTS, "-", lower(text)))

IdleSent == [pc |-> "idle", text |-> [lead |-> 0, words |-> <<>>], result |-> NeutralResult]

(***************************************************************************)
(* Sequential specification: one evaluation at a time, each handler run    *)
(* to completion.  call is the handler's arguments and what it read before *)
(* writing, ret what it returned.                                          *)
(***************************************************************************)
Sessions == {1, 2}

IdleLoc ==
    [ticker |-> <<>>, snap |-> Snapshot(None, NoneDf), trend_df |-> EmptyFrame,
     prev_row |-> <<>>, qoq_change |-> None, row |-> <<>>, df |-> EmptyFrame,
     merged |-> <<>>]

Init ==
    /\ disk = [p \in Paths |-> AbsentFile]
    /\ call = NoCall
    /\ ret = NoResult
    /\ pc = [s \in Sessions |-> "idle"]
    /\ loc = [s \in Sessions |-> IdleLoc]
    /\ dcf = IdleDcf
    /\ buy = IdleBuy
    /\ score = IdleScore
    /\ sent = IdleSent

\* fetch_institutional_snapshot(ticker) with what yfinance and the clock
\* return: lines 70-166
FetchInstitutionalSnapshot(ticker, shares_out, inst_df, now) ==
    LET snap == Snapshot(shares_out, inst_df)
        path == CachePath(ticker)
        trend_df == LoadCache(disk[path])
        prev_row == PrevRow(trend_df)
        qoq == QoqChange(trend_df, snap.inst_pct)
        row == NewRow(now, snap)
        saved == SaveCache(disk[path], row)
        reloaded == LoadCache(saved)
    IN  IF ~snap.ok
        THEN /\ call' = [op |-> "fetch", ticker |-> ticker, row |-> <<>>, prev |-> <<>>]
             /\ ret' = Result(snap, <<>>, None, <<>>)
             /\ UNCHANGED disk
        ELSE /\ call' = [op |-> "fetch", ticker |-> ticker, row |-> <<row>>,
                         prev |-> trend_df.rows]
             /\ disk' = [disk EXCEPT ![path] = saved]
             /\ ret' = Result(snap, reloaded.rows, qoq, prev_row)

Fetch ==
    /\ \E ticker \in Tickers, shares_out \in ShareOuts, inst_df \in InstDfs, now \in Dates :
           FetchInstitutionalSnapshot(ticker, shares_out, inst_df, now)
    /\ UNCHANGED <<pc, loc, dcf, buy, score, sent>>

Next == Fetch

Spec == Init /\ [][Next]_vars

(***************************************************************************)
(* Concurrent specification: two Streamlit sessions evaluate at the same   *)
(* time, each running fetch_institutional_snapshot once, interleaved at    *)
(* its accesses to the cache file.  The cache directory outlives the       *)
(* process, so a file may already hold a snapshot of an earlier run.       *)
(***************************************************************************)
EarlierRun == SaveCache(AbsentFile, NewRow(1, Snapshot(Num(4), Df(<<1>>))))

ConcInit ==
    /\ disk \in [Paths -> {AbsentFile, EarlierRun}]
    /\ call = NoCall
    /\ ret = NoResult
    /\ pc = [s \in Sessions |-> "idle"]
    /\ loc = [s \in Sessions |-> IdleLoc]
    /\ dcf = IdleDcf
    /\ buy = IdleBuy
    /\ score = IdleScore
    /\ sent = IdleSent

\* lines 70-124: the snapshot is computed; without one the call returns
Begin(s) ==
    /\ pc[s] = "idle"
    /\ \E ticker \in Tickers, shares_out \in ShareOuts, inst_df \in InstDfs :
           LET snap == Snapshot(shares_out, inst_df)
           IN  /\ loc' = [loc EXCEPT ![s] = [IdleLoc EXCEPT !.ticker = ticker, !.snap = snap]]
               /\ pc' = [pc EXCEPT ![s] = IF snap.ok THEN "load_prev" ELSE "done"]
    /\ UNCHANGED <<disk, call, ret, dcf, buy, score, sent>>

\* lines 127-134: trend_df = _load_cache(ticker), prev_row, qoq_change
LoadPrev(s) ==
    /\ pc[s] = "load_prev"
    /\ LET trend_df == LoadCache(disk[CachePath(loc[s].ticker)])
       IN  /\ loc' = [loc EXCEPT ![s].trend_df = trend_df,
                                 ![s].prev_row = PrevRow(trend_df),
                                 ![s].qoq_change = QoqChange(trend_df, loc[s].snap.inst_pct)]
           /\ pc' = [pc EXCEPT ![s] = IF trend_df.raised THEN "raised" ELSE "save_load"]
    /\ UNCHANGED <<disk, call, ret, dcf, buy, score, sent>>

\* lines 137-143 and 51-54: the row is stamped, _save_cache loads the file
\* and merges the row
SaveLoad(s) ==
    /\ pc[s] = "save_load"
    /\ \E now \in Dates :
           LET row == NewRow(now, loc[s].snap)
               df == LoadCache(disk[CachePath(loc[s].ticker)])
           IN  /\ loc' = [loc EXCEPT ![s].row = <<row>>,
                                     ![s].df = df,
                                     ![s].merged = MergeRow(df, row)]
               /\ pc' = [pc EXCEPT ![s] = IF df.raised THEN "raised" ELSE "save_open"]
    /\ UNCHANGED <<disk, call, ret, dcf, buy, score, sent>>

\* line 55: to_csv opens the file for writing, which truncates it
SaveOpen(s) ==
    /\ pc[s] = "save_open"
    /\ disk' = [disk EXCEPT ![CachePath(loc[s].ticker)] = EmptyFile]
    /\ pc' = [pc EXCEPT ![s] = "save_write"]
    /\ UNCHANGED <<call, ret, loc, dcf, buy, score, sent>>

\* line 55: to_csv writes the merged frame and closes the file
SaveWrite(s) ==
    /\ pc[s] = "save_write"
    /\ disk' = [disk EXCEPT ![CachePath(loc[s].ticker)] = WriteCsv(loc[s].merged)]
    /\ pc' = [pc EXCEPT ![s] = "reload"]
    /\ UNCHANGED <<call, ret, loc, dcf, buy, score, sent>>

\* lines 146-166: the trend is loaded again and the result returned
Reload(s) ==
    /\ pc[s] = "reload"
    /\ LET trend_df == LoadCache(disk[CachePath(loc[s].ticker)])
       IN  /\ loc' = [loc EXCEPT ![s].trend_df = trend_df]
           /\ pc' = [pc EXCEPT ![s] = IF trend_df.raised THEN "raised" ELSE "done"]
    /\ UNCHANGED <<disk, call, ret, dcf, buy, score, sent>>

ConcNext ==
    \E s \in Sessions :
        \/ Begin(s)
        \/ LoadPrev(s)
        \/ SaveLoad(s)
        \/ SaveOpen(s)
        \/ SaveWrite(s)
        \/ Reload(s)

ConcSpec == ConcInit /\ [][ConcNext]_vars

(***************************************************************************)
(* Valuation specification: one call of simple_dcf_intrinsic_value, from   *)
(* its arguments to its return.                                            *)
(***************************************************************************)
\* lines 248-257: the call; a free cash flow or share count not passed in
\* is looked up (recent_fcf_annual, get_info), and stays None without one
DcfCall ==
    /\ dcf.pc = "idle"
    /\ \E fcf0 \in FcfVals, fetched_fcf \in FcfVals,
          shares_outstanding \in SharesVals, fetched_shares \in SharesVals,
          years \in 0..MaxYears, growth_rate \in GrowthRates,
          discount_rate \in DiscountRates, terminal_growth \in TerminalRates :
           dcf' = [IdleDcf EXCEPT
                      !.pc = "guard",
                      !.fcf0 = IF fcf0.k = "None" THEN fetched_fcf ELSE fcf0,
                      !.shares_outstanding =
                          IF shares_outstanding.k = "None"
                          THEN fetched_shares ELSE shares_outstanding,
                      !.years = years,
                      !.growth_rate = growth_rate,
                      !.discount_rate = discount_rate,
                      !.terminal_growth = terminal_growth]
    /\ UNCHANGED <<disk, call, ret, pc, loc, buy, score, sent>>

\* lines 259-264: the early return
DcfGuard ==
    /\ dcf.pc = "guard"
    /\ dcf' = IF InsufficientData(dcf)
              THEN [dcf EXCEPT !.pc = "return", !.result = InsufficientResult]
              ELSE [dcf EXCEPT !.pc = "project"]
    /\ UNCHANGED <<disk, call, ret, pc, loc, buy, score, sent>>

\* lines 266-288: projection, discounting, terminal value, per-share value
DcfProject ==
    /\ dcf.pc = "project"
    /\ LET result == Project(dcf)
       IN  dcf' = [dcf EXCEPT !.pc = IF result.raised = "no" THEN "return" ELSE "raised",
                               !.result = result]
    /\ UNCHANGED <<disk, call, ret, pc, loc, buy, score, sent>>

DcfNext == DcfCall \/ DcfGuard \/ DcfProject

DcfSpec == Init /\ [][DcfNext]_vars

(***************************************************************************)
(* Signal specification: one run of the scorecard's signal block.          *)
(***************************************************************************)
\* streamlit_app.py lines 73-76 and 115-132
EvaluateBuy ==
    /\ buy.pc = "idle"
    /\ \E iv_ps \in IvVals, price \in PriceVals, sma200 \in SmaVals, rsi14 \in RsiVals,
          sent_norm \in SentVals, mos_threshold \in MosThresholds,
          rsi_buy_max \in RsiBuyMaxes :
           LET b == [IdleBuy EXCEPT !.iv_ps = iv_ps, !.price = price, !.sma200 = sma200,
                                    !.rsi14 = rsi14, !.sent_norm = sent_norm,
                                    !.mos_threshold = mos_threshold,
                                    !.rsi_buy_max = rsi_buy_max]
           IN  buy' = [b EXCEPT !.pc = "done",
                                !.mos = Mos(iv_ps, price),
                                !.buy_signal = BuySignal(b),
                                !.buy_reasons = BuyReasons(b)]
    /\ UNCHANGED <<disk, call, ret, pc, loc, dcf, score, sent>>

BuyNext == EvaluateBuy

BuySpec == Init /\ [][BuyNext]_vars

(***************************************************************************)
(* Scoring specification: one call of one of the scoring functions.        *)
(***************************************************************************)
TechnicalScore ==
    /\ score.pc = "idle"
    /\ \E price \in TechPrices, sma200 \in TechSmas, rsi14 \in TechRsis :
           score' = [pc |-> "done", fn |-> "technical_score",
                     args |-> <<price, sma200, rsi14>>,
                     result |-> technical_score(price, sma200, rsi14)]
    /\ UNCHANGED <<disk, call, ret, pc, loc, dcf, buy, sent>>

OwnershipScore ==
    /\ score.pc = "idle"
    /\ \E inst_pct_change \in OwnChanges, top_conc \in OwnConcs :
           score' = [pc |-> "done", fn |-> "ownership_score",
                     args |-> <<inst_pct_change, top_conc>>,
                     result |-> ownership_score(inst_pct_change, top_conc)]
    /\ UNCHANGED <<disk, call, ret, pc, loc, dcf, buy, sent>>

OverallScore ==
    /\ score.pc = "idle"
    /\ \E m \in NormVals, s \in NormVals, t \in NormVals, o \in NormVals :
           score' = [pc |-> "done", fn |-> "overall_score",
                     args |-> <<Iv(m), Iv(s), Iv(t), Iv(o)>>,
                     result |-> overall_score(m, s, t, o)]
    /\ UNCHANGED <<disk, call, ret, pc, loc, dcf, buy, sent>>

ScoreNext == TechnicalScore \/ OwnershipScore \/ OverallScore

ScoreSpec == Init /\ [][ScoreNext]_vars

(***************************************************************************)
(* Sentiment specification: one call of compute_weighted_sentiment.        *)
(***************************************************************************)
ComputeWeightedSentiment ==
    /\ sent.pc = "idle"
    /\ \E text \in Texts :
           sent' = [pc |-> "done", text |-> text,
                    result |-> compute_weighted_sentiment(text)]
    /\ UNCHANGED <<disk, call, ret, pc, loc, dcf, buy, score>>

SentNext == ComputeWeightedSentiment

SentSpec == Init /\ [][SentNext]_vars

(***************************************************************************)
(* Properties of the trend store under the sequential specification        *)
(***************************************************************************)
\* the trend load_trend returns for a path
Trend(path) == LoadCache(disk[path]).rows

DatesOf(rows) == {rows[i].date : i \in 1..Len(rows)}

\* two cells hold the same value; a missing value is missing however it is
\* spelt (None in the row dict, NaN in a frame)
SameValue(a, b) == IF NotNa(a) \/ NotNa(b) THEN a = b ELSE TRUE

\* C2: in every state reached by appends from an empty store, every
\* persisted trend has valid dates in strictly ascending order: at most one
\* row per date, rows ascending by date.
C2_UniqueAscending ==
    \A path \in Paths :
        LET rows == Trend(path)
        IN  /\ \A i \in 1..Len(rows) : rows[i].date.k = "ts"
            /\ \A i \in 1..(Len(rows) - 1) : rows[i].date.v < rows[i + 1].date.v

\* C2 witness: an append put a row before the tail of a trend of two rows
\* or more, so that the sort had to move it.
C2_Witness ==
    /\ call.op = "fetch"
    /\ Len(call.row) = 1
    /\ Len(call.prev) >= 1
    /\ call.row[1].date.v < call.prev[Len(call.prev)].date.v
    /\ Len(Trend(CachePath(call.ticker))) >= 2

\* C3: an append of a row whose date is not in the trend makes the loaded
\* trend one row longer (so N pairwise distinct dates appended to an empty
\* trend load as N rows); an append of a row whose date is in the trend
\* leaves the row count and the row loaded for that date holds the values of
\* the appended row.
C3_RoundTrip ==
    [][(call'.op = "fetch" /\ Len(call'.row) = 1) =>
        LET path == CachePath(call'.ticker)
            before == Trend(path)
            after == ret'.trend_df
            row == call'.row[1]
        IN  /\ row.date \notin DatesOf(before) => Len(after) = Len(before) + 1
            /\ row.date \in DatesOf(before) => Len(after) = Len(before)
            /\ \E i \in 1..Len(after) :
                   /\ after[i].date = row.date
                   /\ SameValue(after[i].inst_pct, row.inst_pct)
                   /\ SameValue(after[i].top5_pct, row.top5_pct)
                   /\ SameValue(after[i].top10_pct, row.top10_pct)]_vars

\* C3 witness: the last append replaced the row of an existing date by a row
\* with another inst_pct, in a trend of two rows.
C3_Witness ==
    /\ call.op = "fetch"
    /\ Len(call.row) = 1
    /\ Len(call.prev) = 2
    /\ Len(ret.trend_df) = 2
    /\ \E i \in 1..2 :
           /\ call.prev[i].date = call.row[1].date
           /\ ~SameValue(call.prev[i].inst_pct, call.row[1].inst_pct)

\* C6: the QoQ change a fetch returns is the current inst_pct minus the
\* inst_pct of the last row of the trend as persisted before the fetch wrote
\* its own row, when that row exists and both values are present, and None
\* otherwise.
C6_QoqAgainstPriorTail ==
    [][(call'.op = "fetch" /\ ret'.ok) =>
        LET before == Trend(CachePath(call'.ticker))
            cur == ret'.inst_pct
        IN  ret'.qoq_change =
                IF /\ Len(before) > 0
                   /\ NotNa(before[Len(before)].inst_pct)
                   /\ NotNa(cur)
                THEN Num(cur.v - before[Len(before)].inst_pct.v)
                ELSE None]_vars

\* C6 witness: a fetch on a trend of two rows returned a non-zero change
\* although the row it wrote carries the same date as the previous tail.
C6_Witness ==
    /\ call.op = "fetch"
    /\ ret.ok
    /\ Len(call.prev) = 2
    /\ call.row[1].date = call.prev[2].date
    /\ ret.qoq_change.k = "num"
    /\ ret.qoq_change.v # 0
    /\ ret.qoq_change.v = ret.inst_pct.v - call.prev[2].inst_pct.v

(***************************************************************************)
(* Properties of the trend store under the concurrent specification        *)
(***************************************************************************)
AllDone == \A s \in Sessions : pc[s] = "done"

\* the session ran _save_cache: it had a snapshot to append
Appended(s) == pc[s] = "done" /\ Len(loc[s].row) = 1

\* C1: when two concurrent evaluations have appended to the same ticker
\* file and both have returned, the persisted trend is readable and holds
\* the date of the row of each of them: no append is lost.
C1_NoLostAppend ==
    \A s, t \in Sessions :
        (/\ s # t
         /\ AllDone
         /\ Appended(s)
         /\ Appended(t)
         /\ CachePath(loc[s].ticker) = CachePath(loc[t].ticker))
        => /\ disk[CachePath(loc[s].ticker)].st = "csv"
           /\ loc[s].row[1].date \in DatesOf(Trend(CachePath(loc[s].ticker)))
           /\ loc[t].row[1].date \in DatesOf(Trend(CachePath(loc[s].ticker)))

\* C4: the store is append-only: once every evaluation has returned, the
\* date of the snapshot an evaluation found as the tail of the persisted
\* trend before it appended is still in the persisted trend.
C4_AppendOnly ==
    \A s \in Sessions :
        (AllDone /\ Appended(s) /\ Len(loc[s].prev_row) = 1)
        => loc[s].prev_row[1].date \in DatesOf(Trend(CachePath(loc[s].ticker)))

\* C5: a load of a ticker whose file is absent, or present and unreadable,
\* does not raise: it yields the frame with the columns date, inst_pct,
\* top5_pct, top10_pct and no rows, and the evaluation goes on to its next
\* step.
C5_LoadNeverRaises ==
    [][\A s \in Sessions :
          (/\ pc[s] \in {"load_prev", "save_load", "reload"}
           /\ pc'[s] # pc[s]
           /\ disk[CachePath(loc[s].ticker)].st # "csv") =>
              /\ pc[s] = "load_prev" =>
                     loc'[s].trend_df = EmptyFrame /\ pc'[s] = "save_load"
              /\ pc[s] = "save_load" =>
                     loc'[s].df = EmptyFrame /\ pc'[s] = "save_open"
              /\ pc[s] = "reload" =>
                     loc'[s].trend_df = EmptyFrame /\ pc'[s] = "done"]_vars

\* C5 witness: a session that had found a previous snapshot in the file
\* then read the file while another session had it open for writing, and
\* went on with the empty frame.
C5_Witness ==
    \E s \in Sessions :
        /\ pc[s] = "save_open"
        /\ Len(loc[s].prev_row) = 1
        /\ loc[s].df = EmptyFrame
        /\ Len(loc[s].merged) = 1

(***************************************************************************)
(* Properties of the buy signal and of the valuation                       *)
(***************************************************************************)
\* an optional number is there
Present(c) == c.k \in {"num", "float"}

\* C7: the buy signal is true only if MOS >= mos_threshold, price >= SMA200,
\* RSI14 <= rsi_buy_max and sentiment_norm >= 0 all hold, and it is false
\* whenever the intrinsic value, the price, SMA200 or RSI14 is missing.
C7_BuyOnlyIfAll ==
    buy.pc = "done" =>
        /\ buy.buy_signal =>
               /\ Present(buy.iv_ps) /\ Present(buy.price)
               /\ buy.iv_ps.v[1] > 0
               /\ (buy.iv_ps.v[1] - buy.price.v * buy.iv_ps.v[2]) * buy.mos_threshold[2]
                      >= buy.mos_threshold[1] * buy.iv_ps.v[1]
               /\ Present(buy.sma200) /\ buy.price.v >= buy.sma200.v
               /\ Present(buy.rsi14) /\ buy.rsi14.v <= buy.rsi_buy_max
               /\ buy.sent_norm >= 0
        /\ (\E c \in {buy.price, buy.sma200, buy.rsi14} : ~Present(c)) => ~buy.buy_signal
        /\ ~Present(buy.iv_ps) => ~buy.buy_signal

\* C7 witness: a run in which all four conditions hold and the signal is on.
C7_Witness ==
    /\ buy.pc = "done"
    /\ buy.buy_signal
    /\ Len(buy.buy_reasons) = 4

\* the condition of C8 on the values the call works with
ClaimInsufficient ==
    \/ dcf.fcf0.k = "None" \/ dcf.fcf0.v = 0
    \/ dcf.shares_outstanding.k = "None" \/ dcf.shares_outstanding.v = 0
    \/ dcf.discount_rate[1] * dcf.terminal_growth[2]
           <= dcf.terminal_growth[1] * dcf.discount_rate[2]

\* C8: with fcf0 zero or unavailable, shares_outstanding zero or
\* unavailable, or discount_rate <= terminal_growth, the call never enters
\* the projection and returns ok = false, iv_per_share = None and the
\* "Insufficient data" message.
C8_InsufficientData ==
    (dcf.pc \notin {"idle", "guard"} /\ ClaimInsufficient) =>
        /\ dcf.pc = "return"
        /\ dcf.result.ok = FALSE
        /\ dcf.result.iv_per_share = NoIv
        /\ dcf.result.message = "Insufficient data for DCF (FCF, shares, or rates)."

\* C8 witness: a call with a cash flow and a share count whose discount rate
\* equals its terminal growth has returned.
C8_Witness ==
    /\ dcf.pc = "return"
    /\ Truthy(dcf.fcf0)
    /\ Truthy(dcf.shares_outstanding)
    /\ dcf.discount_rate = dcf.terminal_growth
    /\ ~dcf.result.ok

\* C9: a call with shares_outstanding <= 0 returns ok = false and
\* iv_per_share = None.
C9_NonPositiveSharesRejected ==
    (/\ dcf.pc = "return"
     /\ dcf.shares_outstanding.k = "num"
     /\ dcf.shares_outstanding.v <= 0)
    => (~dcf.result.ok /\ dcf.result.iv_per_share = NoIv)

\* the value C10 states, from the arguments of the call
ClaimedIv ==
    LET fcf0 == <<dcf.fcf0.v, 1>>
        g == RAdd(ROne, dcf.growth_rate)
        r == RAdd(ROne, dcf.discount_rate)
        tg == RAdd(ROne, dcf.terminal_growth)
        n == dcf.years
        flows == [t \in 1..n |-> RDiv(RMul(fcf0, RPow(g, t)), RPow(r, t))]
        terminal == RDiv(RDiv(RMul(RMul(fcf0, RPow(g, n)), tg),
                              RSub(dcf.discount_rate, dcf.terminal_growth)),
                         RPow(r, n))
    IN  RDiv(RAdd(RSum(flows), terminal), <<dcf.shares_outstanding.v, 1>>)

\* C10: for fcf0 > 0, shares_outstanding > 0, years >= 1, growth_rate >= 0
\* and discount_rate > terminal_growth >= 0 the call returns ok = true and
\* iv_per_share is the sum of the discounted cash flows plus the discounted
\* terminal value, over the share count, a value above zero.
C10_IntrinsicValue ==
    (/\ dcf.pc \in {"return", "raised"}
     /\ dcf.fcf0.k = "num" /\ dcf.fcf0.v > 0
     /\ dcf.shares_outstanding.k = "num" /\ dcf.shares_outstanding.v > 0
     /\ dcf.years >= 1
     /\ dcf.growth_rate[1] >= 0
     /\ dcf.terminal_growth[1] >= 0
     /\ RLess(dcf.terminal_growth, dcf.discount_rate))
    => /\ dcf.pc = "return"
       /\ dcf.result.ok
       /\ dcf.result.iv_per_share = Iv(ClaimedIv)
       /\ dcf.result.iv_per_share.v[1] > 0

\* C10 witness: a call with fcf0 = 100, 10 shares, three years of growth and
\* a discount rate above a positive terminal growth returned a value.
C10_Witness ==
    /\ dcf.pc = "return"
    /\ dcf.fcf0 = Num(100)
    /\ dcf.shares_outstanding = Num(10)
    /\ dcf.years = 3
    /\ dcf.growth_rate = <<1, 10>>
    /\ dcf.discount_rate = <<1, 10>>
    /\ dcf.terminal_growth = <<1, 20>>
    /\ dcf.result.ok
    /\ RLess(RZero, dcf.result.iv_per_share.v)

\* C11: every call returns a result object, ok = true with a numeric
\* iv_per_share or ok = false with iv_per_share = None, and none ends with
\* an unhandled error.
C11_WellFormedResult ==
    dcf.pc \in {"return", "raised"} =>
        /\ dcf.pc = "return"
        /\ dcf.result.raised = "no"
        /\ \/ dcf.result.ok /\ dcf.result.iv_per_share.k = "float"
           \/ ~dcf.result.ok /\ dcf.result.iv_per_share = NoIv

(***************************************************************************)
(* Properties of the scoring functions                                     *)
(***************************************************************************)
\* a finished call of the scoring function fn
Scored(fn) == score.pc = "done" /\ score.fn = fn

\* -1 <= x <= 1
InUnit(x) == RLeq(Rat(-1, 1), x) /\ RLeq(x, ROne)

\* (0.40 m + 0.25 s + 0.20 t + 0.15 o + 1.0) * 50.0 clamped to [0, 100]
ClaimedOverall(m, s, t, o) ==
    LET weighted == RSum(<<RMul(Rat(2, 5), m), RMul(Rat(1, 4), s),
                           RMul(Rat(1, 5), t), RMul(Rat(3, 20), o)>>)
        raw == RMul(RAdd(weighted, ROne), Rat(50, 1))
    IN  IF RLess(raw, RZero) THEN RZero
        ELSE IF RLess(Rat(100, 1), raw) THEN Rat(100, 1) ELSE raw

\* C12: the weights sum to 1.0; overall_score(m, s, t, o) is
\* (0.40 m + 0.25 s + 0.20 t + 0.15 o + 1.0) * 50.0 clamped to [0, 100], so
\* it lies in [0, 100] for arguments in [-1, 1], and it is 100 at (1,1,1,1),
\* 0 at (-1,-1,-1,-1) and 50 at (0,0,0,0).
C12_OverallScore ==
    /\ RSum(<<w_m, w_s, w_t, w_o>>) = ROne
    /\ Scored("overall_score") =>
           LET m == score.args[1].v
               s == score.args[2].v
               t == score.args[3].v
               o == score.args[4].v
           IN  /\ score.result = ClaimedOverall(m, s, t, o)
               /\ (InUnit(m) /\ InUnit(s) /\ InUnit(t) /\ InUnit(o)) =>
                      RLeq(RZero, score.result) /\ RLeq(score.result, Rat(100, 1))
               /\ (\A i \in 1..4 : score.args[i].v = ROne) => score.result = Rat(100, 1)
               /\ (\A i \in 1..4 : score.args[i].v = Rat(-1, 1)) => score.result = RZero
               /\ (\A i \in 1..4 : score.args[i].v = RZero) => score.result = Rat(50, 1)

\* overall_score(1, 1, 1, 1) has returned 100
C12_Witness ==
    /\ Scored("overall_score")
    /\ score.args = <<Iv(ROne), Iv(ROne), Iv(ROne), Iv(ROne)>>
    /\ score.result = Rat(100, 1)

\* the trend and momentum terms of the technical score, in hundredths
ClaimedTrend(price, sma200) == IF Ge(price, sma200) THEN 40 ELSE -20

ClaimedMomentum(rsi14) ==
    IF Ge(rsi14, Iv(Rat(40, 1))) /\ Ge(Iv(Rat(60, 1)), rsi14) THEN 30
    ELSE IF Gt(Iv(Rat(30, 1)), rsi14) THEN 15
    ELSE IF Gt(rsi14, Iv(Rat(70, 1))) THEN -20
    ELSE 0

\* C13: technical_score is exactly 0.0 when price, sma200 or rsi14 is
\* None; otherwise it is (+0.4 if price >= sma200 else -0.2) plus (+0.3 if
\* 40 <= rsi14 <= 60, +0.15 if rsi14 < 30, -0.2 if rsi14 > 70, else 0), a
\* value in [-1, 1]; price == sma200 counts as above and
\* technical_score(p, p, 50) = 0.7.
C13_TechnicalScore ==
    Scored("technical_score") =>
        LET price == score.args[1]
            sma200 == score.args[2]
            rsi14 == score.args[3]
            missing == price.k = "None" \/ sma200.k = "None" \/ rsi14.k = "None"
        IN  /\ missing => score.result = RZero
            /\ ~missing =>
                   score.result = Rat(ClaimedTrend(price, sma200) + ClaimedMomentum(rsi14), 100)
            /\ InUnit(score.result)
            /\ (price.k = "float" /\ sma200 = price /\ rsi14 = Iv(Rat(50, 1))) =>
                   score.result = Rat(7, 10)

\* technical_score(100, 100, 50) has returned 0.7
C13_Witness ==
    /\ Scored("technical_score")
    /\ score.args = <<Iv(Rat(100, 1)), Iv(Rat(100, 1)), Iv(Rat(50, 1))>>
    /\ score.result = Rat(7, 10)

\* the terms of the ownership score, in hundredths; None contributes 0
ClaimedChangeTerm(change) ==
    IF change.k = "None" THEN 0
    ELSE IF RLess(Rat(1, 2), change.v) THEN 50
    ELSE IF RLess(RZero, change.v) /\ RLeq(change.v, Rat(1, 2)) THEN 25
    ELSE IF RLess(change.v, Rat(-1, 2)) THEN -50
    ELSE 0 - 15

ClaimedConcTerm(conc) ==
    IF conc.k = "None" THEN 0
    ELSE IF RLeq(Rat(30, 1), conc.v) /\ RLeq(conc.v, Rat(60, 1)) THEN 15
    ELSE IF RLess(Rat(80, 1), conc.v) THEN 0 - 15
    ELSE 0

\* C14: ownership_score adds, for a present change, +0.5 above 0.5, +0.25
\* in (0, 0.5], -0.5 below -0.5 and -0.15 in [-0.5, 0], and independently,
\* for a present concentration, +0.15 in [30, 60] and -0.15 above 80; a
\* None argument contributes 0 and leaves the other term alone; the result
\* lies in [-1, 1]; ownership_score(0.6, 45) = 0.65 and
\* ownership_score(-0.6, 85) = -0.65.
C14_OwnershipScore ==
    Scored("ownership_score") =>
        LET change == score.args[1]
            conc == score.args[2]
        IN  /\ score.result = Rat(ClaimedChangeTerm(change) + ClaimedConcTerm(conc), 100)
            /\ InUnit(score.result)
            /\ score.args = <<Iv(Rat(6, 10)), Iv(Rat(45, 1))>> => score.result = Rat(65, 100)
            /\ score.args = <<Iv(Rat(-6, 10)), Iv(Rat(85, 1))>> =>
                   score.result = Rat(-65, 100)

\* ownership_score(0.6, None) has returned 0.5: the missing concentration
\* left the change term alone
C14_Witness ==
    /\ Scored("ownership_score")
    /\ score.args = <<Iv(Rat(6, 10)), NoIv>>
    /\ score.result = Rat(1, 2)

(***************************************************************************)
(* Properties of the sentiment scorer                                      *)
(***************************************************************************)
\* the sum over all patterns of match count x weight, in tenths
ClaimedRaw(text) ==
    LET table == POSITIVE_WEIGHTS \o NEGATIVE_WEIGHTS
    IN  SumSeq([k \in 1..Len(table) |-> findall(table[k].alts, lower(text)) * table[k].weight])

\* C15: for every text the score is clamp((sum over patterns of match
\* count x weight) / 10, -1, 1), a value in [-1, 1]; the label is bullish
\* exactly when the score is above 0.2, bearish exactly when it is below
\* -0.2 and neutral otherwise; an empty or blank text gives score 0.0,
\* label neutral and no hits.
C15_WeightedSentiment ==
    sent.pc = "done" =>
        LET raw == ClaimedRaw(sent.text)
            claimed == IF raw > 100 THEN ROne
                       ELSE IF raw < -100 THEN Rat(-1, 1) ELSE Rat(raw, 100)
            result == sent.result
        IN  /\ result.score = claimed
            /\ InUnit(result.score)
            /\ result.label = "bullish" <=> RLess(Rat(1, 5), result.score)
            /\ result.label = "bearish" <=> RLess(result.score, Rat(-1, 5))
            /\ result.label = "neutral" <=>
                   (RLeq(Rat(-1, 5), result.score) /\ RLeq(result.score, Rat(1, 5)))
            /\ Len(sent.text.words) = 0 =>
                   result = [score |-> RZero, label |-> "neutral", hits |-> <<>>]

\* "Beat" has scored 0.2, which is not above 0.2: neutral, with its hit
C15_Witness ==
    /\ sent.pc = "done"
    /\ sent.text = [lead |-> 0, words |-> <<"Beat">>]
    /\ sent.result.score = Rat(1, 5)
    /\ sent.result.label = "neutral"
    /\ Len(sent.result.hits) = 1

(***************************************************************************)
(* Isolation of the tickers' persisted trends                              *)
(***************************************************************************)
\* C16: an append of a snapshot for one ticker leaves the persisted trend of
\* every other ticker string unchanged, tickers that differ only in letter
\* case or in "/" against "_" included.
C16_PerTickerIsolation ==
    [][(call'.op = "fetch" /\ Len(call'.row) = 1) =>
        \A other \in Tickers \ {call'.ticker} :
            LoadCache(disk'[CachePath(other)]).rows = Trend(CachePath(other))]_vars

====
